---- MODULE Spec2Model ----
(***************************************************************************)
(* Model of src/app.py: the Amazon listing scraper.                        *)
(*                                                                         *)
(* scrape_amazon validates its arguments, probes the pagination of the     *)
(* listing, maps scrape_and_store over the pages 1..N on a thread pool of  *)
(* `threads` workers, and writes the collected rows to a CSV file.         *)
(*                                                                         *)
(* Texts are sequences of one-character strings, so that str.strip(),      *)
(* int() and the comparisons of the code are computed, not assumed.        *)
(* An exception is a value: every function returns Return(v) or Raise(e).  *)
(***************************************************************************)
EXTENDS Integers, Sequences, FiniteSets, Bags, TLC

\* Largest page count of a job and largest pagination number of the listing.
MaxPages == 2
\* Largest value of the `threads` argument.
MaxThreads == 2
\* Longest text of a pagination element in the probe's input space.
MaxTextLen == 3

\* The only status the code accepts (response.status_code != 200).
HttpOk == 200

-----------------------------------------------------------------------------
(* Results and exceptions *)

Return(v) == [raised |-> FALSE, exc |-> "", val |-> v]
Raise(e) == [raised |-> TRUE, exc |-> e, val |-> 0]

-----------------------------------------------------------------------------
(* Text: str.strip() and int() *)

AsciiDigits == {"0", "1", "2", "3", "4", "5", "6", "7", "8", "9"}

\* The decimal digits of the other scripts (Unicode category Nd) that a
\* string literal can hold, one row per script, each row from 0 to 9:
\* Extended Arabic-Indic, Nko, Bengali, Gujarati, Tamil, Kannada, Sinhala
\* Lith, Lao, Myanmar Shan, Khmer, New Tai Lue, Tai Tham Hora, Tai Tham
\* Tham, Sundanese, Saurashtra, Javanese, Myanmar Tai Laing, Meetei Mayek.
\* int() reads a digit of any script by its value.
ScriptDigits ==
  << <<"۰", "۱", "۲", "۳", "۴", "۵", "۶", "۷", "۸", "۹">>,
     <<"߀", "߁", "߂", "߃", "߄", "߅", "߆", "߇", "߈", "߉">>,
     <<"০", "১", "২", "৩", "৪", "৫", "৬", "৭", "৮", "৯">>,
     <<"૦", "૧", "૨", "૩", "૪", "૫", "૬", "૭", "૮", "૯">>,
     <<"௦", "௧", "௨", "௩", "௪", "௫", "௬", "௭", "௮", "௯">>,
     <<"೦", "೧", "೨", "೩", "೪", "೫", "೬", "೭", "೮", "೯">>,
     <<"෦", "෧", "෨", "෩", "෪", "෫", "෬", "෭", "෮", "෯">>,
     <<"໐", "໑", "໒", "໓", "໔", "໕", "໖", "໗", "໘", "໙">>,
     <<"႐", "႑", "႒", "႓", "႔", "႕", "႖", "႗", "႘", "႙">>,
     <<"០", "១", "២", "៣", "៤", "៥", "៦", "៧", "៨", "៩">>,
     <<"᧐", "᧑", "᧒", "᧓", "᧔", "᧕", "᧖", "᧗", "᧘", "᧙">>,
     <<"᪀", "᪁", "᪂", "᪃", "᪄", "᪅", "᪆", "᪇", "᪈", "᪉">>,
     <<"᪐", "᪑", "᪒", "᪓", "᪔", "᪕", "᪖", "᪗", "᪘", "᪙">>,
     <<"᮰", "᮱", "᮲", "᮳", "᮴", "᮵", "᮶", "᮷", "᮸", "᮹">>,
     <<"꣐", "꣑", "꣒", "꣓", "꣔", "꣕", "꣖", "꣗", "꣘", "꣙">>,
     <<"꧐", "꧑", "꧒", "꧓", "꧔", "꧕", "꧖", "꧗", "꧘", "꧙">>,
     <<"꧰", "꧱", "꧲", "꧳", "꧴", "꧵", "꧶", "꧷", "꧸", "꧹">>,
     <<"꯰", "꯱", "꯲", "꯳", "꯴", "꯵", "꯶", "꯷", "꯸", "꯹">> >>

Digits ==
  AsciiDigits \cup {ScriptDigits[k][i] : k \in DOMAIN ScriptDigits, i \in 1..10}

\* The characters str.strip() takes for whitespace: space, tab, line feed,
\* vertical tab (0x0b), form feed, carriage return, the four separators
\* 0x1c..0x1f, and outside ASCII next line (U+0085), no-break space
\* (U+00A0) and the Ogham space mark (U+1680). The characters without an
\* escape are written as the characters themselves. The remaining Unicode
\* spaces (U+2000..U+200A, U+2028, U+2029, U+202F, U+205F, U+3000) cannot
\* be written in a string literal and are in no text of this module.
IsSpace(c) ==
  c \in {" ", "\t", "\n", "\r", "\f", "", "", "", "", "",
         "", " ", " "}

\* The characters int() skips around a numeral: the same without the
\* separators 0x1c..0x1f.
IsIntSpace(c) ==
  c \in {" ", "\t", "\n", "\r", "\f", "", "", " ", " "}

IsDigit(c) == c \in Digits

\* The value of a decimal digit.
DigitVal(c) ==
  CASE c = "0" -> 0 [] c = "1" -> 1 [] c = "2" -> 2 [] c = "3" -> 3
    [] c = "4" -> 4 [] c = "5" -> 5 [] c = "6" -> 6 [] c = "7" -> 7
    [] c = "8" -> 8 [] c = "9" -> 9
    [] OTHER ->
         LET k == CHOOSE k \in DOMAIN ScriptDigits :
                    \E i \in 1..10 : ScriptDigits[k][i] = c
         IN  (CHOOSE i \in 1..10 : ScriptDigits[k][i] = c) - 1

RECURSIVE LStrip(_)
LStrip(s) == IF s # <<>> /\ IsSpace(Head(s)) THEN LStrip(Tail(s)) ELSE s

RECURSIVE RStrip(_)
RStrip(s) ==
  IF s # <<>> /\ IsSpace(s[Len(s)]) THEN RStrip(SubSeq(s, 1, Len(s) - 1)) ELSE s

\* str.strip(): leading and trailing whitespace removed.
strip(s) == RStrip(LStrip(s))

RECURSIVE IntSkip(_)
\* The text int() parses once the whitespace around it is skipped.
IntSkip(s) ==
  IF s # <<>> /\ IsIntSpace(Head(s)) THEN IntSkip(Tail(s))
  ELSE IF s # <<>> /\ IsIntSpace(s[Len(s)]) THEN IntSkip(SubSeq(s, 1, Len(s) - 1))
  ELSE s

RECURSIVE DigitsValue(_)
\* The value of the digits of s, the underscores between them skipped.
DigitsValue(s) ==
  IF s = <<>> THEN 0
  ELSE IF s[Len(s)] = "_" THEN DigitsValue(SubSeq(s, 1, Len(s) - 1))
  ELSE 10 * DigitsValue(SubSeq(s, 1, Len(s) - 1)) + DigitVal(s[Len(s)])

\* The digits int() accepts: decimal digits of any script, with single
\* underscores between digits allowed.
AllDigits(s) ==
  /\ s # <<>>
  /\ IsDigit(s[1])
  /\ IsDigit(s[Len(s)])
  /\ \A i \in 1..Len(s) : IsDigit(s[i]) \/ s[i] = "_"
  /\ \A i \in 1..(Len(s) - 1) : ~(s[i] = "_" /\ s[i + 1] = "_")

\* sys.int_max_str_digits of CPython 3.11: the most digits int() converts.
IntMaxStrDigits == 4300

\* The number of digits of s, leading zeros counted and underscores not.
DigitCount(s) == Cardinality({i \in 1..Len(s) : IsDigit(s[i])})

\* int(text): optional surrounding whitespace, an optional sign, then decimal
\* digits with optional single underscores between them; anything else, and
\* a numeral of more than IntMaxStrDigits digits, raises ValueError.
int(s) ==
  LET t == IntSkip(s)
      signed == t # <<>> /\ Head(t) \in {"+", "-"}
      body == IF signed THEN Tail(t) ELSE t
  IN  IF AllDigits(body) /\ DigitCount(body) <= IntMaxStrDigits
      THEN Return(IF signed /\ Head(t) = "-" THEN 0 - DigitsValue(body)
                  ELSE DigitsValue(body))
      ELSE Raise("ValueError")

-----------------------------------------------------------------------------
(* get_max_page *)

\* A response of requests.get for the base listing URL: exc names the
\* exception the HTTP client raised, "" when it returned a response;
\* disabled is the list of texts of the elements matching
\* span.s-pagination-item.s-pagination-disabled, in document order.
ProbeResponse(exc, status, disabled) ==
  [exc |-> exc, status |-> status, disabled |-> disabled]

\* max_elem[0]: the first disabled element instead of the last.
MaxElemFirst(max_elem) == max_elem[1]

\* max_elem[-1]
MaxElem(max_elem) == max_elem[Len(max_elem)]

\* Line 49 has no try: an exception of requests.get leaves get_max_page
\* as it is.
get_max_page(response) ==
  IF response.exc # "" THEN Raise(response.exc)
  ELSE IF response.status # HttpOk THEN Raise("ValueError: Failed to fetch page")
  ELSE LET max_elem == response.disabled IN
       IF max_elem # <<>>
       THEN LET n == int(strip(MaxElem(max_elem))) IN
            IF n.raised
            THEN Raise("ValueError: Failed to extract the max page number")
            ELSE n
       ELSE Raise("ValueError: Pagination information not found")

\* The exceptions of requests that are ValueErrors; InvalidSchema and
\* InvalidURL are raised for a redirect to a URL that cannot be requested.
RequestsValueErrors ==
  {"InvalidSchema", "MissingSchema", "InvalidURL", "InvalidProxyURL", "InvalidHeader"}

\* Line 203: except ValueError.
IsValueError(r) ==
  r.raised /\ r.exc \in {"ValueError: Failed to fetch page",
                         "ValueError: Failed to extract the max page number",
                         "ValueError: Pagination information not found"}
                          \cup RequestsValueErrors

-----------------------------------------------------------------------------
(* Python values of a product record *)

NA == <<"N", "/", "A">>

InStockMarker == <<"I", "n", " ", "s", "t", "o", "c", "k">>

\* A str value, and the bool False; text is what str(value) gives.
PyStr(t) == [type |-> "str", text |-> t]
PyFalse == [type |-> "bool", text |-> <<"F", "a", "l", "s", "e">>]

-----------------------------------------------------------------------------
(* get_seller *)

\* A response of requests.get for a product detail page. availability and
\* seller are the texts of the elements matching #availability and
\* #sellerProfileTriggerId, <<>> when the page has no such element and
\* <<text>> when it has one.
SellerResponse(exc, status, availability, seller) ==
  [exc |-> exc, status |-> status, availability |-> availability, seller |-> seller]

\* soup.select(selector): the list of matching elements.
select(elems) == elems

\* .text of the list that soup.select returns: a bs4 ResultSet has no
\* attribute text, whatever it holds.
ResultSetText(result_set) == Raise("AttributeError")

\* text.strip() or "N/A"
StripOrNA(t) == IF strip(t) = <<>> THEN NA ELSE strip(t)

\* Lines 88-104. warned: the warning of line 91 was logged.
get_seller(response) ==
  IF response.exc THEN [res |-> Raise("ConnectionError"), warned |-> FALSE]
  ELSE IF response.status # HttpOk
  THEN [res |-> Return(PyFalse), warned |-> TRUE]
  ELSE LET stock == ResultSetText(select(response.availability)) IN
       IF stock.raised THEN [res |-> stock, warned |-> FALSE]
       ELSE LET stock_detail == StripOrNA(stock.val) IN
            IF stock_detail = InStockMarker
            THEN LET name == ResultSetText(select(response.seller)) IN
                 IF name.raised THEN [res |-> name, warned |-> FALSE]
                 ELSE [res |-> Return(PyStr(StripOrNA(name.val))), warned |-> FALSE]
            ELSE [res |-> Return(PyStr(NA)), warned |-> FALSE]

-----------------------------------------------------------------------------
(* scrape_page: one product container *)

\* A product container of a listing page. title, price and rating are <<>>
\* (no such element) or <<text>>; link is "none" (no anchor element),
\* "nohref" (an anchor without href) or "href"; detail is the response the
\* product's link would be answered with.
Container(title, price, rating, link, detail) ==
  [title |-> title, price |-> price, rating |-> rating, link |-> link,
   detail |-> detail]

\* elem.text.strip() if elem else "N/A"
TextOrNA(elem) == IF elem # <<>> THEN strip(elem[1]) ELSE NA

\* Line 137: seller_url_elem.get("href", "N/A"); None has no get.
SellerUrl(item) ==
  IF item.link = "none" THEN Raise("AttributeError")
  ELSE IF item.link = "href" THEN Return("url")
  ELSE Return("N/A")

\* Lines 129-145 for one container: the record appended to products, or the
\* exception that leaves scrape_page. fetched: get_seller was called.
ScrapeItem(item) ==
  LET title == TextOrNA(item.title)
      price == TextOrNA(item.price)
      rating == TextOrNA(item.rating)
      seller_url == SellerUrl(item)
      Rec(seller) == [title |-> PyStr(title), price |-> PyStr(price),
                      rating |-> PyStr(rating), seller |-> seller]
  IN  IF seller_url.raised
      THEN [res |-> seller_url, fetched |-> FALSE, warned |-> FALSE]
      ELSE IF seller_url.val # "N/A"
      THEN LET s == get_seller(item.detail) IN
           IF s.res.raised
           THEN [res |-> s.res, fetched |-> TRUE, warned |-> s.warned]
           ELSE [res |-> Return(Rec(s.res.val)), fetched |-> TRUE,
                 warned |-> s.warned]
      ELSE [res |-> Return(Rec(PyStr(NA))), fetched |-> FALSE, warned |-> FALSE]

\* Lines 125-148: the loop over the containers from index i on, with
\* acc.products the list built so far, acc.fetched the number of get_seller
\* calls made and acc.warned the indices of the containers whose seller
\* fetch logged a warning. The first exception ends the loop.
RECURSIVE ScrapeLoop(_, _, _)
ScrapeLoop(items, i, acc) ==
  IF i > Len(items)
  THEN [res |-> Return(acc.products), fetched |-> acc.fetched, warned |-> acc.warned]
  ELSE LET r == ScrapeItem(items[i])
           fetched == acc.fetched + (IF r.fetched THEN 1 ELSE 0)
           warned == IF r.warned THEN acc.warned \cup {i} ELSE acc.warned
       IN  IF r.res.raised
           THEN [res |-> r.res, fetched |-> fetched, warned |-> warned]
           ELSE ScrapeLoop(items, i + 1,
                           [products |-> Append(acc.products, r.res.val),
                            fetched |-> fetched, warned |-> warned])

\* A response of requests.get for a listing page; items are the containers
\* matching the product selector, in document order.
PageResponse(exc, status, items) == [exc |-> exc, status |-> status, items |-> items]

-----------------------------------------------------------------------------
(* The site: the responses the HTTP client can give *)

Title1 == <<" ", "T", "V", "">>
Title2 == <<"P", "C", "">>
Price1 == <<"9", "9">>
Rating1 == <<"4", ".", "5">>
AcmeCo == <<"A", "c", "m", "e", " ", "C", "o">>
OutOfStockMarker == <<"O", "u", "t">>

NoDetail == SellerResponse(FALSE, 404, <<>>, <<>>)
DetailInStock == SellerResponse(FALSE, HttpOk, <<InStockMarker>>, <<AcmeCo>>)
DetailOutOfStock == SellerResponse(FALSE, HttpOk, <<OutOfStockMarker>>, <<AcmeCo>>)
Detail503 == SellerResponse(FALSE, 503, <<>>, <<>>)
DetailDown == SellerResponse(TRUE, 0, <<>>, <<>>)

\* Complete card whose anchor has no href.
CFull == Container(<<Title1>>, <<Price1>>, <<Rating1>>, "nohref", NoDetail)
\* Card without title, price and rating elements.
CBare == Container(<<>>, <<>>, <<>>, "nohref", NoDetail)
\* Card without the seller anchor.
CNoLink == Container(<<Title2>>, <<Price1>>, <<>>, "none", NoDetail)
CInStock == Container(<<Title1>>, <<Price1>>, <<Rating1>>, "href", DetailInStock)
COutOfStock == Container(<<Title2>>, <<Price1>>, <<Rating1>>, "href", DetailOutOfStock)
CSeller503 == Container(<<Title2>>, <<Price1>>, <<Rating1>>, "href", Detail503)
CSellerDown == Container(<<Title2>>, <<Price1>>, <<Rating1>>, "href", DetailDown)

\* What a listing page can be answered with.
PageResponses ==
  { PageResponse(TRUE, 0, <<>>),
    PageResponse(FALSE, 503, <<CFull>>),
    PageResponse(FALSE, HttpOk, <<CFull, CBare>>),
    PageResponse(FALSE, HttpOk, <<CInStock, COutOfStock>>),
    PageResponse(FALSE, HttpOk, <<CSeller503, CFull>>),
    PageResponse(FALSE, HttpOk, <<CFull, CSellerDown>>),
    PageResponse(FALSE, HttpOk, <<CNoLink, CFull>>) }

\* The decimal text of a page number 0..9 with surrounding whitespace, as
\* the listing renders it.
PageNumberText(n) ==
  <<" ", CHOOSE c \in AsciiDigits : DigitVal(c) = n>>

Previous == <<"P", "r", "e", "v">>

\* What the base listing URL can be answered with when scrape_amazon probes
\* it: on the first page "Previous" and the last page number are disabled.
\* The number shown can also be 0 or negative.
ProbeResponses ==
  { ProbeResponse("ConnectionError", 0, <<>>),
    ProbeResponse("InvalidSchema", 0, <<>>),
    ProbeResponse("", 503, <<>>),
    ProbeResponse("", HttpOk, <<>>),
    ProbeResponse("", HttpOk, <<PageNumberText(MaxPages), Previous>>),
    ProbeResponse("", HttpOk, <<Previous, <<"-", "3">>>>) }
  \cup { ProbeResponse("", HttpOk, <<Previous, PageNumberText(n)>>) : n \in 0..MaxPages }

\* The texts of at most MaxTextLen characters a pagination element can hold
\* in the probe's input space: digits (one of them the Extended Arabic-Indic
\* seven), whitespace (space, vertical tab, the separator 0x1c, no-break
\* space), underscore, a letter and the minus sign.
ProbeChars == {"1", "7", "۷", " ", "", "", " ", "_", "x", "-"}

RECURSIVE TextsUpTo(_)
TextsUpTo(n) ==
  IF n = 0 THEN {<<>>}
  ELSE LET shorter == TextsUpTo(n - 1) IN
       shorter \cup {Append(t, c) : t \in shorter, c \in ProbeChars}

ProbeTexts == TextsUpTo(MaxTextLen)

ProbeInputs ==
  { ProbeResponse("ConnectionError", 0, <<>>),
    ProbeResponse("InvalidSchema", 0, <<>>),
    ProbeResponse("", 404, <<>>) }
  \cup { ProbeResponse("", HttpOk, d) :
           d \in {<<>>} \cup {<<a>> : a \in ProbeTexts}
                 \cup {<<a, b>> : a \in TextsUpTo(1), b \in ProbeTexts} }

\* The arguments scrape_amazon can be called with: pages is "all", another
\* string, or an integer.
PagesArgs ==
  { [kind |-> "str", s |-> "all", n |-> 0],
    [kind |-> "str", s |-> "tomorrow", n |-> 0] }
  \cup { [kind |-> "int", s |-> "", n |-> n] : n \in (0 - 1)..MaxPages }

-----------------------------------------------------------------------------
(* State *)

VARIABLES
  threads,       \* the threads argument of scrape_amazon
  pc,            \* where scrape_amazon is
  outcome,       \* how scrape_amazon ended: "", "True", "False" or the exception
  pages,         \* the `pages` argument, which line 201 overwrites
  probe_calls,   \* number of get_max_page calls made
  probe_in,      \* the response given to get_max_page (SpecProbe)
  probe_out,     \* the result of get_max_page on probe_in (SpecProbe)
  seller_in,     \* the response given to get_seller (SpecSeller)
  seller_out,    \* the result of get_seller on seller_in (SpecSeller)
  queue,         \* the executor's work queue: pages not yet taken
  task,          \* page -> "none", "queued", "running", "returned", "raised"
  resp,          \* page -> the response its fetch got (NoResponse before it)
  wpc,           \* worker -> "none", "idle", "fetch", "parse", "lock", "append", "sleep"
  wpage,         \* worker -> the page of its task
  widx,          \* worker -> the container the loop of scrape_page is at
  wprod,         \* worker -> the local `products` of scrape_page
  lock,          \* holder of `lock`, 0 when free
  idle_semaphore, \* the executor's _idle_semaphore: its counter
  all_products,  \* the shared list
  warnings,      \* what logger.warning was called for
  fetches,       \* number of requests.get calls made
  csv            \* the file at csv_path: whether written, and its rows

vars == <<threads, pc, outcome, pages, probe_calls, probe_in,
          probe_out, seller_in, seller_out, queue, task, resp, wpc, wpage,
          widx, wprod, lock, idle_semaphore, all_products, warnings, fetches, csv>>

PageIds == 1..MaxPages

\* Thread ids: the pool never needs more threads than there are tasks.
WorkerIds == 1..(IF MaxThreads > MaxPages THEN MaxThreads ELSE MaxPages)

NoProbe == ProbeResponse("", 0, <<>>)
NoResponse == PageResponse(FALSE, 0, <<>>)

NotCalled == Raise("not called")

Min(a, b) == IF a < b THEN a ELSE b

\* ThreadPoolExecutor(): one thread for every submitted task.
MaxWorkersUnbounded(t) == MaxPages

\* Line 218: ThreadPoolExecutor(max_workers=threads).
MaxWorkers(t) == t

\* str(value), as csv.DictWriter renders a field.
str(v) == v.text

\* Lines 225-227: the row DictWriter writes for one record.
CsvRow(rec) ==
  [title |-> str(rec.title), price |-> str(rec.price),
   rating |-> str(rec.rating), seller |-> str(rec.seller)]

\* all_products = products: assignment instead of extend.
ExtendOverwrite(list, products) == products

\* for product in products: all_products.insert(0, product).
ExtendInsertFront(list, products) ==
  [i \in 1..Len(products) |-> products[Len(products) + 1 - i]] \o list

\* Line 215: all_products.extend(products).
Extend(list, products) == list \o products

Init ==
  /\ pages \in PagesArgs
  /\ threads \in 1..MaxThreads
  /\ pc = "validate"
  /\ outcome = ""
  /\ probe_calls = 0
  /\ probe_in = NoProbe
  /\ probe_out = NotCalled
  /\ seller_in = NoDetail
  /\ seller_out = NotCalled
  /\ queue = <<>>
  /\ task = [p \in PageIds |-> "none"]
  /\ resp = [p \in PageIds |-> NoResponse]
  /\ wpc = [w \in WorkerIds |-> "none"]
  /\ wpage = [w \in WorkerIds |-> 0]
  /\ widx = [w \in WorkerIds |-> 0]
  /\ idle_semaphore = 0
  /\ wprod = [w \in WorkerIds |-> <<>>]
  /\ lock = 0
  /\ all_products = <<>>
  /\ warnings = {}
  /\ fetches = 0
  /\ csv = [written |-> FALSE, rows |-> <<>>]

jobVars == <<threads>>
probeVars == <<probe_calls, probe_in, probe_out>>
sellerVars == <<seller_in, seller_out>>
poolVars == <<queue, task, resp, wpc, wpage, widx, wprod, lock,
              idle_semaphore, all_products, warnings>>

\* pages < 0: zero pages accepted.
TooFewPagesNegative(n) == n < 0

\* Line 184: pages < 1.
TooFewPages(n) == n < 1

\* Lines 181-186: the argument checks.
Validate ==
  /\ pc = "validate"
  /\ IF pages.kind = "str" /\ pages.s # "all"
     THEN pc' = "raised" /\ outcome' = "ValueError: invalid page number"
     ELSE IF pages.kind = "int" /\ TooFewPages(pages.n)
     THEN pc' = "raised" /\ outcome' = "ValueError: Pages cannot be negative or 0"
     ELSE pc' = "probe" /\ outcome' = outcome
  /\ UNCHANGED <<jobVars, sellerVars, pages, probeVars, poolVars, fetches, csv>>

\* Line 196: max_page = get_max_page(URL), outside any try.
Probe ==
  /\ pc = "probe"
  /\ \E r \in ProbeResponses :
       LET res == get_max_page(r) IN
       IF res.raised
       THEN pc' = "raised" /\ outcome' = res.exc
       ELSE pc' = "resolve" /\ outcome' = outcome
  /\ probe_calls' = probe_calls + 1
  /\ fetches' = fetches + 1
  /\ UNCHANGED <<jobVars, sellerVars, pages, probe_in, probe_out, poolVars, csv>>

\* except ValueError: pass, and the job goes on.
AfterDiscoveryErrorIgnored == "submit"

\* Line 205: return False.
AfterDiscoveryError == "failed"

\* Lines 199-205 when pages == "all": the second get_max_page call, whose
\* ValueError is caught and turned into `return False`.
DiscoverAll ==
  /\ pc = "resolve"
  /\ pages.kind = "str" /\ pages.s = "all"
  /\ \E r \in ProbeResponses :
       LET res == get_max_page(r) IN
       IF IsValueError(res)
       THEN pc' = AfterDiscoveryError /\ outcome' = "False" /\ pages' = pages
       ELSE IF res.raised
       THEN pc' = "raised" /\ outcome' = res.exc /\ pages' = pages
       ELSE /\ pc' = "submit"
            /\ outcome' = outcome
            /\ pages' = [kind |-> "int", s |-> "", n |-> res.val]
  /\ probe_calls' = probe_calls + 1
  /\ fetches' = fetches + 1
  /\ UNCHANGED <<jobVars, sellerVars, probe_in, probe_out, poolVars, csv>>

\* Line 199 when pages is an integer: nothing to resolve.
PagesGiven ==
  /\ pc = "resolve"
  /\ pages.kind = "int"
  /\ pc' = "submit"
  /\ UNCHANGED <<jobVars, sellerVars, outcome, pages, probeVars, poolVars, fetches, csv>>

\* The pages executor.map has submitted so far.
Submitted == {p \in PageIds : task[p] # "none"}

\* The threads the executor has started.
Started == {w \in WorkerIds : wpc[w] # "none"}

\* Lines 209-219: the executor is created and executor.map submits the
\* tasks of range(1, pages + 1) one after the other, while the threads
\* already started run. The first half of executor.submit puts the work
\* item of the next page on the queue. When the range is empty (pages
\* resolved to less than 1) nothing is submitted and the with block is left.
Submit ==
  /\ pc = "submit"
  /\ LET p == Cardinality(Submitted) + 1 IN
     IF p > pages.n
     THEN /\ pc' = "join"
          /\ UNCHANGED <<queue, task>>
     ELSE /\ queue' = Append(queue, p)
          /\ task' = [task EXCEPT ![p] = "queued"]
          /\ pc' = "adjust"
  /\ UNCHANGED <<jobVars, sellerVars, outcome, pages, probeVars, resp, wpc, wpage, widx,
                 wprod, lock, idle_semaphore, all_products, warnings, fetches, csv>>

\* The second half of executor.submit, _adjust_thread_count: the idle
\* semaphore is taken if it can be, and otherwise a thread is started while
\* fewer than max_workers threads exist. After the last submit the with
\* block is left.
AdjustThreadCount ==
  /\ pc = "adjust"
  /\ LET n == Cardinality(Started) IN
     IF idle_semaphore > 0
     THEN /\ idle_semaphore' = idle_semaphore - 1
          /\ wpc' = wpc
     ELSE /\ idle_semaphore' = idle_semaphore
          /\ wpc' = IF n < MaxWorkers(threads)
                    THEN [wpc EXCEPT ![n + 1] = "idle"]
                    ELSE wpc
  /\ pc' = IF Cardinality(Submitted) >= pages.n THEN "join" ELSE "submit"
  /\ UNCHANGED <<jobVars, sellerVars, outcome, pages, probeVars, queue, task, resp,
                 wpage, widx, wprod, lock, all_products, warnings, fetches, csv>>
-----------------------------------------------------------------------------
(* The pool's threads: scrape_and_store(page) *)

coordVars == <<pc, outcome, pages, csv>>

\* A pool thread takes the next work item off the queue and calls
\* scrape_and_store(page): the request of line 118 is sent. The idle
\* threads of the pool are interchangeable; the one with the lowest id
\* stands for whichever of them gets the item.
Take(w) ==
  /\ wpc[w] = "idle"
  /\ \A v \in WorkerIds : v < w => wpc[v] # "idle"
  /\ queue # <<>>
  /\ wpage' = [wpage EXCEPT ![w] = Head(queue)]
  /\ queue' = Tail(queue)
  /\ task' = [task EXCEPT ![Head(queue)] = "running"]
  /\ wpc' = [wpc EXCEPT ![w] = "fetch"]
  /\ wprod' = [wprod EXCEPT ![w] = <<>>]
  /\ UNCHANGED <<jobVars, sellerVars, coordVars, probeVars, resp, widx, lock,
                 idle_semaphore, all_products, warnings, fetches>>

\* The exception leaves scrape_and_store: the future keeps it, nobody asks
\* for the result, and the thread, having released the idle semaphore, is
\* free for the next work item.
TaskRaised(w) ==
  /\ task' = [task EXCEPT ![wpage[w]] = "raised"]
  /\ wpc' = [wpc EXCEPT ![w] = "idle"]
  /\ wpage' = [wpage EXCEPT ![w] = 0]
  /\ widx' = [widx EXCEPT ![w] = 0]
  /\ wprod' = [wprod EXCEPT ![w] = <<>>]
  /\ idle_semaphore' = idle_semaphore + 1

\* The status check dropped: every response is parsed.
PageFailedNever(r) == FALSE

\* Line 120: response.status_code != 200.
PageFailed(r) == r.status # HttpOk

\* Lines 117-125: the response of the page request arrives.
FetchPage(w) ==
  /\ wpc[w] = "fetch"
  /\ fetches' = fetches + 1
  /\ \E r \in PageResponses :
       /\ resp' = [resp EXCEPT ![wpage[w]] = r]
       /\ IF r.exc
          THEN TaskRaised(w) /\ warnings' = warnings
          ELSE IF PageFailed(r)
          THEN /\ warnings' = warnings \cup {[kind |-> "page", page |-> wpage[w], item |-> 0]}
               /\ wpc' = [wpc EXCEPT ![w] = "lock"]
               /\ UNCHANGED <<task, wpage, widx, wprod, idle_semaphore>>
          ELSE /\ wpc' = [wpc EXCEPT ![w] = "parse"]
               /\ widx' = [widx EXCEPT ![w] = 1]
               /\ UNCHANGED <<task, wpage, wprod, warnings, idle_semaphore>>
  /\ UNCHANGED <<jobVars, sellerVars, coordVars, probeVars, queue, lock, all_products>>

\* Lines 124-148, one turn of the loop of scrape_page: the container at
\* widx is read and, when it has a seller link, get_seller has sent its
\* request and got the response; the record is appended to products (line
\* 145). After the last container (or at once, when the page has none)
\* scrape_page returns its products.
ParsePage(w) ==
  /\ wpc[w] = "parse"
  /\ LET items == resp[wpage[w]].items
         i == widx[w]
         r == IF items = <<>>
              THEN [res |-> Return(<<>>), fetched |-> FALSE, warned |-> FALSE]
              ELSE ScrapeItem(items[i])
     IN  /\ fetches' = fetches + (IF r.fetched THEN 1 ELSE 0)
         /\ warnings' = warnings \cup
              (IF r.warned
               THEN {[kind |-> "seller", page |-> wpage[w], item |-> i]} ELSE {})
         /\ IF r.res.raised
            THEN TaskRaised(w)
            ELSE /\ wprod' = [wprod EXCEPT ![w] =
                      IF items = <<>> THEN @ ELSE Append(@, r.res.val)]
                 /\ wpc' = [wpc EXCEPT ![w] = IF i >= Len(items) THEN "lock" ELSE @]
                 /\ widx' = [widx EXCEPT ![w] = IF i >= Len(items) THEN 0 ELSE i + 1]
                 /\ UNCHANGED <<task, wpage, idle_semaphore>>
  /\ UNCHANGED <<jobVars, sellerVars, coordVars, probeVars, queue, resp, lock, all_products>>

\* No lock at all: every thread enters the block as soon as it gets there.
LockFreeAlways == TRUE

\* Line 214: lock.acquire() blocks while another thread holds the lock.
LockFree == lock = 0

\* Line 214: with lock.
Acquire(w) ==
  /\ wpc[w] = "lock"
  /\ LockFree
  /\ lock' = w
  /\ wpc' = [wpc EXCEPT ![w] = "append"]
  /\ UNCHANGED <<jobVars, sellerVars, coordVars, probeVars, queue, task, resp, wpage,
                 widx, wprod, idle_semaphore, all_products, warnings, fetches>>

\* End of the with block of line 214: lock.release().
Released(w) == 0

\* Line 215 and the end of the with block: extend, then release.
ExtendAndRelease(w) ==
  /\ wpc[w] = "append"
  /\ all_products' = Extend(all_products, wprod[w])
  /\ lock' = Released(w)
  /\ wpc' = [wpc EXCEPT ![w] = "sleep"]
  /\ UNCHANGED <<jobVars, sellerVars, coordVars, probeVars, queue, task, resp, wpage,
                 widx, wprod, idle_semaphore, warnings, fetches>>

\* Line 216: time.sleep(1) ends and scrape_and_store returns; the thread
\* releases the idle semaphore and waits for the next work item.
Wake(w) ==
  /\ wpc[w] = "sleep"
  /\ task' = [task EXCEPT ![wpage[w]] = "returned"]
  /\ wpc' = [wpc EXCEPT ![w] = "idle"]
  /\ wpage' = [wpage EXCEPT ![w] = 0]
  /\ wprod' = [wprod EXCEPT ![w] = <<>>]
  /\ idle_semaphore' = idle_semaphore + 1
  /\ UNCHANGED <<jobVars, sellerVars, coordVars, probeVars, queue, resp, widx, lock,
                 all_products, warnings, fetches>>

\* shutdown(wait=False): the with block is left at once.
PoolDrainedNoWait == TRUE

\* shutdown(wait=True): the work queue is empty and no thread is in a task.
PoolDrained ==
  /\ queue = <<>>
  /\ \A w \in WorkerIds : wpc[w] \in {"none", "idle"}

\* Line 218-219: leaving the with block is shutdown(wait=True): every
\* submitted task has run and every thread has ended.
Join ==
  /\ pc = "join"
  /\ PoolDrained
  /\ pc' = "write"
  /\ UNCHANGED <<jobVars, sellerVars, outcome, pages, probeVars, poolVars, fetches, csv>>

\* Lines 221-230: the CSV file is written and scrape_amazon returns True.
WriteCsv ==
  /\ pc = "write"
  /\ csv' = [written |-> TRUE,
             rows |-> [i \in 1..Len(all_products) |-> CsvRow(all_products[i])]]
  /\ pc' = "done"
  /\ outcome' = "True"
  /\ UNCHANGED <<jobVars, sellerVars, pages, probeVars, poolVars, fetches>>

Next ==
  \/ Validate
  \/ Probe
  \/ DiscoverAll
  \/ PagesGiven
  \/ Submit
  \/ AdjustThreadCount
  \/ \E w \in WorkerIds : Take(w)
  \/ \E w \in WorkerIds : FetchPage(w)
  \/ \E w \in WorkerIds : ParsePage(w)
  \/ \E w \in WorkerIds : Acquire(w)
  \/ \E w \in WorkerIds : ExtendAndRelease(w)
  \/ \E w \in WorkerIds : Wake(w)
  \/ Join
  \/ WriteCsv

Spec == Init /\ [][Next]_vars

-----------------------------------------------------------------------------
(* get_max_page on its own, over every input of ProbeInputs *)

InitProbe ==
  /\ pages = [kind |-> "str", s |-> "all", n |-> 0]
  /\ threads = 1
  /\ pc = "probe_only"
  /\ outcome = ""
  /\ probe_calls = 0
  /\ probe_in \in ProbeInputs
  /\ probe_out = NotCalled
  /\ seller_in = NoDetail
  /\ seller_out = NotCalled
  /\ queue = <<>>
  /\ task = [p \in PageIds |-> "none"]
  /\ resp = [p \in PageIds |-> NoResponse]
  /\ wpc = [w \in WorkerIds |-> "none"]
  /\ wpage = [w \in WorkerIds |-> 0]
  /\ widx = [w \in WorkerIds |-> 0]
  /\ idle_semaphore = 0
  /\ wprod = [w \in WorkerIds |-> <<>>]
  /\ lock = 0
  /\ all_products = <<>>
  /\ warnings = {}
  /\ fetches = 0
  /\ csv = [written |-> FALSE, rows |-> <<>>]

\* get_max_page(url) with probe_in as the response of its request.
ProbeCall ==
  /\ pc = "probe_only"
  /\ probe_out' = get_max_page(probe_in)
  /\ probe_calls' = probe_calls + 1
  /\ fetches' = fetches + 1
  /\ pc' = "probe_done"
  /\ UNCHANGED <<jobVars, sellerVars, outcome, pages, probe_in, poolVars, csv>>

NextProbe == ProbeCall

SpecProbe == InitProbe /\ [][NextProbe]_vars

-----------------------------------------------------------------------------
(* get_seller on its own, over every input of SellerInputs *)

BoltInc == <<"B", "o", "l", "t">>

\* What the #availability element of a detail page can read.
AvailabilityTexts ==
  { InStockMarker, <<" ">> \o InStockMarker, InStockMarker \o <<" ">>,
    <<"\n", " ">> \o InStockMarker \o <<"\n">>,
    <<"i", "n", " ", "s", "t", "o", "c", "k">>, OutOfStockMarker, <<>>, <<" ">> }

\* What the #sellerProfileTriggerId element of a detail page can read.
SellerTexts == { AcmeCo, <<"\t">> \o AcmeCo \o <<" ">>, BoltInc, <<>>, <<"\n">> }

\* The responses to the request of line 88: a transport failure, a non-200
\* status, and 200 with or without either element.
SellerInputs ==
  { SellerResponse(TRUE, 0, <<>>, <<>>), SellerResponse(FALSE, 404, <<>>, <<>>),
    SellerResponse(FALSE, 503, <<>>, <<>>) }
  \cup { SellerResponse(FALSE, HttpOk, a, n) :
           a \in {<<>>} \cup {<<t>> : t \in AvailabilityTexts},
           n \in {<<>>} \cup {<<t>> : t \in SellerTexts} }

InitSeller ==
  /\ pages = [kind |-> "int", s |-> "", n |-> 1]
  /\ threads = 1
  /\ pc = "seller_only"
  /\ outcome = ""
  /\ probe_calls = 0
  /\ probe_in = NoProbe
  /\ probe_out = NotCalled
  /\ seller_in \in SellerInputs
  /\ seller_out = NotCalled
  /\ queue = <<>>
  /\ task = [p \in PageIds |-> "none"]
  /\ resp = [p \in PageIds |-> NoResponse]
  /\ wpc = [w \in WorkerIds |-> "none"]
  /\ wpage = [w \in WorkerIds |-> 0]
  /\ widx = [w \in WorkerIds |-> 0]
  /\ idle_semaphore = 0
  /\ wprod = [w \in WorkerIds |-> <<>>]
  /\ lock = 0
  /\ all_products = <<>>
  /\ warnings = {}
  /\ fetches = 0
  /\ csv = [written |-> FALSE, rows |-> <<>>]

\* get_seller(seller_url) with seller_in as the response of its request.
SellerCall ==
  /\ pc = "seller_only"
  /\ seller_out' = get_seller(seller_in).res
  /\ warnings' = IF get_seller(seller_in).warned
                 THEN {[kind |-> "seller", page |-> 0, item |-> 0]} ELSE {}
  /\ fetches' = fetches + 1
  /\ pc' = "seller_done"
  /\ UNCHANGED <<jobVars, outcome, pages, probeVars, seller_in, queue, task, resp,
                 wpc, wpage, widx, wprod, lock, idle_semaphore, all_products, csv>>

NextSeller == SellerCall

SpecSeller == InitSeller /\ [][NextSeller]_vars

-----------------------------------------------------------------------------
(* Properties *)

Running == {p \in PageIds : task[p] = "running"}

InFlight == {w \in WorkerIds : wpc[w] \in {"fetch", "parse"}}

\* C1: while the pool runs, at most `threads` page tasks are in progress,
\* hence at most `threads` requests (a page request or one of the seller
\* requests of a page) are in flight at the same time.
C1_ConcurrencyBound ==
  /\ Cardinality(Running) <= threads
  /\ Cardinality(InFlight) <= threads
  /\ Cardinality({w \in WorkerIds : wpc[w] \notin {"none", "idle"}}) = Cardinality(Running)

\* The cap binds: `threads` tasks run, each with a request in flight,
\* while another page waits in the queue.
C1_Witness ==
  /\ pc = "join"
  /\ Cardinality(Running) = threads
  /\ Cardinality(InFlight) = threads
  /\ queue # <<>>

IsAll(pg) == pg.kind = "str" /\ pg.s = "all"

JobFailed == pc \in {"failed", "raised"}

NothingStarted ==
  /\ queue = <<>>
  /\ \A p \in PageIds : task[p] = "none" /\ resp[p] = NoResponse
  /\ \A w \in WorkerIds : wpc[w] = "none"
  /\ all_products = <<>>

\* C6: in a "discover all" job a failed pagination discovery ends the job
\* in Failed (get_max_page's exception leaves scrape_amazon, or it returns
\* False): the job takes no further step, no worker was started, no page was
\* fetched and no file was written. Only a successful discovery, which
\* replaces "all" by the page count, lets the job go on.
C6_DiscoveryFailureAborts ==
  IsAll(pages) =>
    /\ pc \in {"validate", "probe", "resolve", "failed", "raised"}
    /\ NothingStarted
    /\ ~csv.written
    /\ JobFailed => probe_calls >= 1 /\ fetches = probe_calls /\ ~ENABLED Next

\* The second discovery of a "discover all" job has failed: return False.
C6_Witness ==
  /\ IsAll(pages)
  /\ pc = "failed"
  /\ outcome = "False"
  /\ probe_calls = 2

\* pages still holds the argument of scrape_amazon: lines 199-205, which
\* overwrite it, have not run.
BeforeResolve == pc \in {"validate", "probe", "resolve", "raised"}

InvalidPages(pg) ==
  \/ pg.kind = "str" /\ pg.s # "all"
  \/ pg.kind = "int" /\ pg.n <= 0

\* C7: a job whose pages argument is a string other than "all" or an
\* integer below 1 is rejected with a ValueError before any request: it
\* only ever is before or after the argument checks, no request was made,
\* nothing was started and no file was written. (Once line 201 has put the
\* discovered number into pages, pages is no longer the argument.)
C7_InvalidRejected ==
  (BeforeResolve /\ InvalidPages(pages)) =>
    /\ pc \in {"validate", "raised"}
    /\ pc = "raised" =>
         outcome \in {"ValueError: invalid page number",
                      "ValueError: Pages cannot be negative or 0"}
    /\ fetches = 0
    /\ probe_calls = 0
    /\ NothingStarted
    /\ ~csv.written

\* pages = 0 has been rejected.
C7_Witness ==
  /\ pages.kind = "int"
  /\ pages.n = 0
  /\ pc = "raised"
  /\ outcome = "ValueError: Pages cannot be negative or 0"
\* The decimal numeral of a natural number.
RECURSIVE Decimal(_)
Decimal(n) ==
  LET d == CHOOSE c \in AsciiDigits : DigitVal(c) = n % 10 IN
  IF n < 10 THEN <<d>> ELSE Append(Decimal(n \div 10), d)

RECURSIVE DropZeros(_)
DropZeros(d) == IF Len(d) > 1 /\ Head(d) = "0" THEN DropZeros(Tail(d)) ELSE d

\* Blank characters: space, tab, the line breaks (line feed, vertical tab,
\* form feed, carriage return, next line), the separators 0x1c..0x1f,
\* no-break space and the Ogham space mark.
Blank ==
  {" ", "\t", "\n", "\r", "\f", "", "", "", "", "", "", " ", " "}

\* The ASCII digit of the same value as the digit c of whatever script.
AsAscii(c) == CHOOSE d \in AsciiDigits : DigitVal(d) = DigitVal(c)

\* t[i..j] is a decimal numeral as Python writes integers, optionally signed
\* and with single underscores allowed between its digits, the digits being
\* decimal digits of any script, at most 4300 of them (more are refused by
\* int()), and only blanks surround it.
NumeralAt(t, i, j) ==
  /\ i <= j
  /\ Cardinality({k \in i..j : t[k] \in Digits}) <= 4300
  /\ \A k \in 1..Len(t) : (k < i \/ k > j) => t[k] \in Blank
  /\ LET first == IF t[i] \in {"+", "-"} THEN i + 1 ELSE i IN
     /\ first <= j
     /\ t[first] \in Digits
     /\ t[j] \in Digits
     /\ \A k \in first..j : t[k] \in Digits \/ (t[k] = "_" /\ t[k + 1] \in Digits)

NoUnderscore(c) == c # "_"

\* The numeral t[i..j] denotes the integer v.
Denotes(t, i, j, v) ==
  /\ NumeralAt(t, i, j)
  /\ LET first == IF t[i] \in {"+", "-"} THEN i + 1 ELSE i
         digits == SelectSeq(SubSeq(t, first, j), NoUnderscore)
     IN  DropZeros([k \in 1..Len(digits) |-> AsAscii(digits[k])]) =
           Decimal(IF v < 0 THEN 0 - v ELSE v)
  /\ v < 0 => t[i] = "-"
  /\ v > 0 => t[i] # "-"

IsNumericText(t) == \E i, j \in 1..Len(t) : NumeralAt(t, i, j)

\* C10: on a fetched listing page get_max_page returns the number that the
\* text of the last disabled pagination element denotes (7 for the page
\* whose last disabled element reads "7"), raises the not-found ValueError
\* when the page has no such element, and raises the cannot-extract
\* ValueError when the text of that element is not a number.
C10_MaxPage ==
  (pc = "probe_done" /\ probe_in.exc = "" /\ probe_in.status = 200) =>
    LET elems == probe_in.disabled
        last == elems[Len(elems)]
    IN  IF elems = <<>>
        THEN probe_out = Raise("ValueError: Pagination information not found")
        ELSE IF IsNumericText(last)
        THEN /\ ~probe_out.raised
             /\ \E i, j \in 1..Len(last) : Denotes(last, i, j, probe_out.val)
        ELSE probe_out = Raise("ValueError: Failed to extract the max page number")

\* Two disabled elements, the last one reading 7 (the Extended Arabic-Indic
\* seven between a no-break space and the separator 0x1c) and the first one
\* not.
C10_Witness ==
  /\ pc = "probe_done"
  /\ probe_in.exc = ""
  /\ probe_in.status = 200
  /\ Len(probe_in.disabled) = 2
  /\ probe_in.disabled[2] = <<" ", "۷", "">>
  /\ probe_in.disabled[1] = <<"1">>
  /\ probe_out = Return(7)
-----------------------------------------------------------------------------
(* What the pages are expected to contribute *)

Range(f) == {f[i] : i \in DOMAIN f}

\* The multiset of the elements of a sequence.
SeqToBag(q) == [x \in Range(q) |-> Cardinality({i \in DOMAIN q : q[i] = x})]

RECURSIVE BagSum(_, _)
\* The sum of the bags f[1], ..., f[n].
BagSum(f, n) == IF n = 0 THEN EmptyBag ELSE BagSum(f, n - 1) (+) f[n]

MapSeq(Op(_), q) == [i \in DOMAIN q |-> Op(q[i])]

Fetched(p) == task[p] \in {"returned", "raised"} \/ (task[p] = "running" /\ resp[p] # NoResponse)

\* The fetch of the page succeeded.
PageOk(r) == ~r.exc /\ r.status = 200

\* The fetch of the page was answered with a status outside 200..299.
PageNon2xx(r) == ~r.exc /\ (r.status < 200 \/ r.status > 299)

\* The seller fetch of the container fails: non-2xx or transport failure.
SellerFetchFails(item) ==
  item.link = "href" /\ (item.detail.exc \/ item.detail.status < 200 \/ item.detail.status > 299)

\* The product of a container as the listing page shows it.
Core(item) ==
  [title |-> IF item.title = <<>> THEN NA ELSE strip(item.title[1]),
   price |-> IF item.price = <<>> THEN NA ELSE strip(item.price[1]),
   rating |-> IF item.rating = <<>> THEN NA ELSE strip(item.rating[1])]

RowCore(row) == [title |-> row.title, price |-> row.price, rating |-> row.rating]

\* The seller the specification gives a container: the name on the detail
\* page when the fetch succeeds and the indicator reads the in-stock marker,
\* "N/A" otherwise.
ExpectedSeller(item) ==
  IF /\ item.link = "href"
     /\ ~item.detail.exc
     /\ item.detail.status = 200
     /\ item.detail.availability # <<>>
     /\ strip(item.detail.availability[1]) = InStockMarker
     /\ item.detail.seller # <<>>
     /\ strip(item.detail.seller[1]) # <<>>
  THEN strip(item.detail.seller[1])
  ELSE NA

ExpectedRow(item) ==
  [title |-> Core(item).title, price |-> Core(item).price,
   rating |-> Core(item).rating, seller |-> ExpectedSeller(item)]

\* C2: when the job is done, the rows handed to the CSV writer are, for
\* every page 1..N whose fetch succeeded, every product of the page exactly
\* once, and nothing else.
C2_NoLossNoDuplication ==
  pc = "done" =>
    SeqToBag(MapSeq(RowCore, csv.rows)) =
      BagSum([p \in PageIds |->
                IF p <= pages.n /\ PageOk(resp[p])
                THEN SeqToBag(MapSeq(Core, resp[p].items))
                ELSE EmptyBag],
             MaxPages)

\* A worker has appended the products of its page and has not returned yet.
Appended(w) == wpc[w] = "sleep"

\* C4: a failing seller fetch (non-2xx status or transport failure) gives
\* the record of its product the seller "N/A"; the task of the page does not
\* end in an exception, every product of the page is appended, and the job
\* does not fail.
C4_SellerFailureIsNA ==
  /\ \A p \in PageIds :
       ( /\ PageOk(resp[p])
         /\ \E i \in DOMAIN resp[p].items : SellerFetchFails(resp[p].items[i])
         /\ \A i \in DOMAIN resp[p].items :
              resp[p].items[i].link = "nohref" \/ SellerFetchFails(resp[p].items[i]) )
       => task[p] # "raised"
  /\ \A w \in WorkerIds :
       (Appended(w) /\ PageOk(resp[wpage[w]])) =>
         LET items == resp[wpage[w]].items IN
         /\ Len(wprod[w]) = Len(items)
         /\ \A i \in DOMAIN items :
              SellerFetchFails(items[i]) => wprod[w][i].seller = PyStr(NA)
  /\ (\E p \in PageIds : Fetched(p)) => pc \in {"submit", "adjust", "join", "write", "done"}

\* C5: a container without title, price, rating or seller link gives a
\* record whose field is "N/A" (seller "N/A" and no seller fetch for a
\* missing link); parsing a page raises nothing and the other records of
\* the page are produced.
C5_MissingFieldsAreNA ==
  /\ \A p \in PageIds :
       ( /\ PageOk(resp[p])
         /\ \A i \in DOMAIN resp[p].items : resp[p].items[i].link # "href" )
       => task[p] # "raised"
  /\ \A w \in WorkerIds :
       (Appended(w) /\ PageOk(resp[wpage[w]])) =>
         LET items == resp[wpage[w]].items IN
         /\ Len(wprod[w]) = Len(items)
         /\ \A i \in DOMAIN items :
              /\ items[i].title = <<>> => wprod[w][i].title = PyStr(NA)
              /\ items[i].price = <<>> => wprod[w][i].price = PyStr(NA)
              /\ items[i].rating = <<>> => wprod[w][i].rating = PyStr(NA)
              /\ items[i].link # "href" => wprod[w][i].seller = PyStr(NA)

\* Every page fetch of the job succeeded, every product links to its
\* detail page, and every seller fetch succeeded.
AllFetchesSucceeded ==
  \A p \in 1..pages.n :
    /\ PageOk(resp[p])
    /\ \A i \in DOMAIN resp[p].items :
         /\ resp[p].items[i].link = "href"
         /\ ~resp[p].items[i].detail.exc
         /\ resp[p].items[i].detail.status = 200

\* C8: when every page fetch and every seller fetch succeeds (pages of
\* in-stock and out-of-stock products, each with its detail page), the
\* output has one row for every container of the pages 1..N, an in-stock
\* product with the name of its seller and an out-of-stock product with
\* seller "N/A", in whatever order.
C8_EndToEnd ==
  (pc = "done" /\ AllFetchesSucceeded) =>
    SeqToBag(csv.rows) =
      BagSum([p \in PageIds |->
                IF p <= pages.n
                THEN SeqToBag(MapSeq(ExpectedRow, resp[p].items))
                ELSE EmptyBag],
             MaxPages)

\* The products scrape_and_store appends for a page answered with r.
Contribution(r) ==
  IF r.exc \/ PageFailed(r) THEN <<>>
  ELSE LET l == ScrapeLoop(r.items, 1, [products |-> <<>>, fetched |-> 0, warned |-> {}])
       IN  IF l.res.raised THEN <<>> ELSE l.res.val

\* C9: the rows of the finished job, as a multiset, are determined by the
\* responses alone: whatever the interleaving of the workers, they are the
\* sum over the pages 1..N of what each page's response yields, so two runs
\* against the same responses differ in the order of the rows at most.
C9_ContentIndependentOfSchedule ==
  pc = "done" =>
    /\ SeqToBag(all_products) =
         BagSum([p \in PageIds |->
                   IF p <= pages.n THEN SeqToBag(Contribution(resp[p])) ELSE EmptyBag],
                MaxPages)
    /\ csv.rows = MapSeq(CsvRow, all_products)

\* Two pages have contributed, page 2 before page 1.
C9_Witness ==
  /\ pc = "done"
  /\ pages.n >= 2
  /\ resp[1] = PageResponse(FALSE, HttpOk, <<CFull, CBare>>)
  /\ resp[2] = PageResponse(FALSE, HttpOk, <<CSeller503, CFull>>)
  /\ Len(all_products) = 4
  /\ all_products[1].seller = PyFalse
  /\ all_products[4].title = PyStr(NA)
\* The fetch of page p was answered with a non-2xx status.
Non2xx(p) == resp[p] # NoResponse /\ PageNon2xx(resp[p])

\* How far scrape_amazon and the task of page p have come.
PcRank ==
  CASE pc = "validate" -> 0 [] pc = "probe" -> 1 [] pc = "resolve" -> 2
    [] pc = "adjust" -> 3 [] pc = "submit" -> 4 [] pc = "join" -> 5
    [] pc = "write" -> 6 [] OTHER -> 7

TaskRank(p) ==
  IF task[p] = "none" THEN 0
  ELSE IF task[p] = "queued" THEN 2
  ELSE IF task[p] \in {"returned", "raised"} THEN Len(resp[p].items) + 8
  ELSE LET w == CHOOSE w \in WorkerIds : wpage[w] = p
           n == Len(resp[p].items)
       IN  CASE wpc[w] = "fetch" -> 3 [] wpc[w] = "parse" -> 3 + widx[w]
             [] wpc[w] = "lock" -> n + 5 [] wpc[w] = "append" -> n + 6
             [] wpc[w] = "sleep" -> n + 7

RECURSIVE TaskRankSum(_)
TaskRankSum(n) == IF n = 0 THEN 0 ELSE TaskRankSum(n - 1) + TaskRank(n)

Rank == PcRank + TaskRankSum(MaxPages)

\* The job can take a step: a thread is at a request or in the loop of
\* scrape_page (FetchPage, ParsePage), or one of the other actions is
\* enabled.
CanStep ==
  \/ \E w \in WorkerIds : wpc[w] \in {"fetch", "parse"}
  \/ ENABLED (\/ Submit
              \/ AdjustThreadCount
              \/ Join
              \/ WriteCsv
              \/ \E w \in WorkerIds :
                   Take(w) \/ Acquire(w) \/ ExtendAndRelease(w) \/ Wake(w))

C3_Safe ==
  \A p \in PageIds :
    Non2xx(p) =>
      /\ [kind |-> "page", page |-> p, item |-> 0] \in warnings
      /\ task[p] \in {"running", "returned"}
      /\ pc \in {"submit", "adjust", "join", "write", "done"}
      /\ \A w \in WorkerIds :
           wpage[w] = p => wprod[w] = <<>> /\ wpc[w] \in {"lock", "append", "sleep"}
      /\ pc # "done" => CanStep
      /\ pc = "done" =>
           csv.written /\ \A q \in 1..pages.n : task[q] \in {"returned", "raised"}

C3_Step ==
  /\ \A w \in WorkerIds :
       (wpc[w] = "append" /\ Non2xx(wpage[w])) => all_products' = all_products
  /\ (\E p \in PageIds : Non2xx(p)) => Rank' > Rank

\* C3: a page whose fetch is answered with a non-2xx status is warned
\* about, its task appends no record to all_products and ends normally, and
\* the job still reaches Done: from then on the job is never stuck before
\* Done, every step brings it closer (Rank is bounded and grows), and at
\* Done every page 1..N has been processed and the CSV file is written.
C3_Non2xxPage == []C3_Safe /\ [][C3_Step]_vars

\* Page 1 was answered 503 and page 2 has contributed its two products.
C3_Witness ==
  /\ pc = "done"
  /\ pages.n = 2
  /\ resp[1].status = 503
  /\ task[1] = "returned"
  /\ task[2] = "returned"
  /\ Len(csv.rows) = 2

-----------------------------------------------------------------------------
(* C11: get_max_page is called once for pages = "all" and never for a
   page count *)

\* C11: a job makes at most one get_max_page call; a job given a page count
\* of 1 or more makes none, so up to the point where pages = "all" is
\* resolved it has made no call and no failure of the pagination request
\* has ended it.
C11_ProbeOnlyForAll ==
  /\ probe_calls <= 1
  /\ (BeforeResolve /\ pages.kind = "int" /\ pages.n >= 1)
       => (probe_calls = 0 /\ ~JobFailed)

-----------------------------------------------------------------------------
(* C12: a transport failure of a page fetch *)

\* The request of line 118 for page p has raised.
TransportFailed(p) == resp[p] # NoResponse /\ resp[p].exc

\* C12: every page whose fetch ended in a transport failure has been
\* reported with a warning, no thread carries records of that page towards
\* all_products, and the job goes on: it has not failed, and while it is not
\* Done it can take a step.
C12_TransportFailureWarned ==
  \A p \in PageIds :
    TransportFailed(p) =>
      /\ [kind |-> "page", page |-> p, item |-> 0] \in warnings
      /\ \A w \in WorkerIds : wpage[w] = p => wprod[w] = <<>>
      /\ ~JobFailed
      /\ pc # "done" => CanStep

-----------------------------------------------------------------------------
(* C13: a job whose page count is resolved ends at Done *)

\* This turn of the loop of scrape_page sends no request: the page has no
\* container, or the container at widx has no seller link to follow.
NoRequest(w) ==
  LET items == resp[wpage[w]].items IN
  items = <<>> \/ items[widx[w]].link # "href"

\* The steps that need nothing but the program's own threads to be
\* scheduled: the main thread goes on, a pool thread takes a queued work
\* item, parses, is granted the free lock, appends, and ends its pause.
\* The answer to a request is not among them: requests.get is called
\* without a timeout (lines 49, 88, 118) and returns only when the server
\* answers or the connection fails.
LocalStep ==
  \/ Validate
  \/ PagesGiven
  \/ Submit
  \/ AdjustThreadCount
  \/ Join
  \/ WriteCsv
  \/ \E w \in WorkerIds :
       \/ Take(w)
       \/ ParsePage(w) /\ NoRequest(w)
       \/ Acquire(w)
       \/ ExtendAndRelease(w)
       \/ Wake(w)

FairSpec == Spec /\ WF_vars(LocalStep)

\* Lines 207-230: the page count is an integer and the pool is about to
\* be, or has been, created.
Resolved == pc \in {"submit", "adjust", "join", "write", "done"}

\* The CSV file is written once and not touched again, and a resolved job
\* never turns into a failed one.
C13_Step ==
  /\ Resolved => (pc' # "failed" /\ pc' # "raised")
  /\ csv.written => csv' = csv
  /\ (~csv.written /\ csv'.written) => pc' = "done"

\* C13: once the page count is resolved to N >= 1 the job reaches Done with
\* the CSV file written, whatever the page fetches, seller fetches and
\* parsing of the pages 1..N yield; the file is written exactly once and no
\* failure of a page or of a seller fetch makes the job fail.
C13_ReachesDone ==
  /\ (pc = "submit" /\ pages.n >= 1) ~> (pc = "done" /\ csv.written)
  /\ [][C13_Step]_vars

-----------------------------------------------------------------------------
(* C14: the CSV file is written after the pool has ended *)

\* Lines 221-230: scrape_amazon has left the with block of the executor.
AfterPool == pc \in {"write", "done"}

C14_Safe ==
  /\ AfterPool =>
       /\ \A p \in 1..pages.n : task[p] \in {"returned", "raised"}
       /\ \A w \in WorkerIds : wpc[w] \in {"none", "idle"}
       /\ lock = 0
  /\ csv.written => csv.rows = MapSeq(CsvRow, all_products)

C14_Step == AfterPool => all_products' = all_products

\* C14: the CSV file is written only when every page task 1..N has
\* returned or raised, and from the moment all_products is handed to the
\* writer no thread changes it: the rows of the file are the list as it
\* was when the pool ended.
C14_WriteAfterAllTasks == []C14_Safe /\ [][C14_Step]_vars

\* The file of a job of two pages is written: the task of one page has
\* returned with products, the task of the other has raised.
C14_Witness ==
  /\ pc = "done"
  /\ csv.written
  /\ pages.n = 2
  /\ task[1] = "raised"
  /\ task[2] = "returned"
  /\ Len(csv.rows) = 2

-----------------------------------------------------------------------------
(* C15: the lock guards the append and nothing else *)

\* The threads inside the with block of line 214.
Appending == {w \in WorkerIds : wpc[w] = "append"}

\* C15: at most one thread holds the lock, and the holder is at its
\* all_products.extend: a thread that is fetching a page, fetching a
\* seller, parsing or pausing does not hold it, so a thread waits for
\* another only while that one appends.
C15_LockOnlyForAppend ==
  /\ Cardinality(Appending) <= 1
  /\ lock \in {0} \cup WorkerIds
  /\ lock # 0 => Appending = {lock}
  /\ lock = 0 => Appending = {}
  /\ \A w \in WorkerIds :
       (wpc[w] = "lock" /\ ~ENABLED Acquire(w)) => Appending # {}

\* One thread is appending the products of its page while another waits
\* for the lock and nobody pauses.
C15_Witness ==
  /\ lock = 1
  /\ wpc[1] = "append"
  /\ wprod[1] # <<>>
  /\ wpc[2] = "lock"

-----------------------------------------------------------------------------
(* C16: every record of the output is complete *)

\* The seller names the detail pages of the responses show.
SellerNames ==
  {strip(c.detail.seller[1]) :
     c \in {c \in UNION {Range(r.items) : r \in PageResponses} :
              c.link = "href" /\ c.detail.seller # <<>>}}

\* C16: in the written file every row's seller is a seller name or "N/A",
\* never another placeholder, and for every page whose records are in the
\* output one seller fetch was made per record with a seller link and none
\* for a record without.
C16_RecordsComplete ==
  /\ csv.written =>
       \A i \in DOMAIN csv.rows : csv.rows[i].seller \in SellerNames \cup {NA}
  /\ \A p \in PageIds :
       (task[p] = "returned" /\ PageOk(resp[p])) =>
         LET l == ScrapeLoop(resp[p].items, 1,
                             [products |-> <<>>, fetched |-> 0, warned |-> {}])
         IN  l.fetched = Cardinality({i \in DOMAIN resp[p].items :
                                        resp[p].items[i].link = "href"})

-----------------------------------------------------------------------------
(* C17: get_seller on a detail page that was fetched *)

\* The text of the #availability element, read as line 97 reads it, is the
\* in-stock marker.
ReadsInStock(response) ==
  response.availability # <<>> /\ strip(response.availability[1]) = InStockMarker

\* C17: on a detail page answered 200 get_seller does not raise; it returns
\* the seller name of the page only if the availability text is the
\* in-stock marker, and "N/A" for any other text and for a page without the
\* element.
C17_SellerOnlyInStock ==
  (pc = "seller_done" /\ ~seller_in.exc /\ seller_in.status = HttpOk) =>
    /\ ~seller_out.raised
    /\ seller_out.val.type = "str"
    /\ seller_out.val # PyStr(NA) =>
         /\ ReadsInStock(seller_in)
         /\ seller_in.seller # <<>>
         /\ seller_out.val = PyStr(strip(seller_in.seller[1]))
    /\ ~ReadsInStock(seller_in) => seller_out.val = PyStr(NA)

-----------------------------------------------------------------------------
(* C18: the pause after every page task *)

\* A thread of the pool becomes free for its next page.
BecomesFree(w) == wpc[w] \notin {"none", "idle"} /\ wpc'[w] = "idle"

\* C18: a thread that has finished a page task, whether the page succeeded
\* or failed, becomes free for its next page only by ending the pause of
\* time.sleep(1).
C18_Step == \A w \in WorkerIds : BecomesFree(w) => wpc[w] = "sleep"

C18_PauseAfterEveryPage == [][C18_Step]_vars

-----------------------------------------------------------------------------
(* C19: the records of a page keep their order *)

\* The orders in which the tasks of pages 1..n can have appended.
PageOrders(n) ==
  {o \in [1..n -> 1..n] : \A i, j \in 1..n : o[i] = o[j] => i = j}

RECURSIVE Concat(_, _)
\* The products of the pages o[1], ..., o[k], one page after the other.
Concat(o, k) ==
  IF k < 1 THEN <<>> ELSE Concat(o, k - 1) \o Contribution(resp[o[k]])

\* The i-th product of a page is the product of the i-th container of its
\* markup.
MarkupOrder(r) ==
  LET products == Contribution(r) IN
  products # <<>> =>
    /\ Len(products) = Len(r.items)
    /\ \A i \in DOMAIN products : RowCore(CsvRow(products[i])) = Core(r.items[i])

\* The extend of a page appends its products in one piece, whatever else the
\* other threads do.
C19_Step ==
  \A w \in WorkerIds :
    (wpc[w] = "append" /\ wpc'[w] = "sleep") =>
      all_products' = all_products \o Contribution(resp[wpage[w]])

\* C19: the written rows are the products of the pages, page by page in
\* some order of the pages, and inside a page in the order of the
\* containers in its markup: two records of one page are never swapped or
\* pulled apart, under any interleaving.
C19_PageOrderKept ==
  /\ [](csv.written =>
          \E o \in PageOrders(pages.n) :
            csv.rows = MapSeq(CsvRow, Concat(o, pages.n)))
  /\ [](\A p \in PageIds : MarkupOrder(resp[p]))
  /\ [][C19_Step]_vars

\* The two products of page 2 precede the two of page 1 in the file, each
\* pair in the order of its page.
C19_Witness ==
  /\ csv.written
  /\ pages.n = 2
  /\ resp[1] = PageResponse(FALSE, HttpOk, <<CSeller503, CFull>>)
  /\ resp[2] = PageResponse(FALSE, HttpOk, <<CFull, CBare>>)
  /\ csv.rows = MapSeq(CsvRow, Contribution(resp[2]) \o Contribution(resp[1]))

====
